---- MODULE Spec2Model ----
(***************************************************************************)
(* Model of nextstrain/cli/runner/aws_batch/logs.py: fetch_stream(), the   *)
(* paginated log query, and LogWatcher, the thread that polls it, drops    *)
(* the entries it has already consumed and hands the others to a consumer. *)
(*                                                                         *)
(* Two processes: the watcher thread (LogWatcher.run) and the callers of   *)
(* start(), stop() and join().  The remote log store and the consumer are  *)
(* the environment: the store answers each page request with any page of   *)
(* events that satisfies the query (or fails), the consumer returns or     *)
(* raises.                                                                 *)
(***************************************************************************)
EXTENDS Integers, Sequences, FiniteSets

\* ---- bounds -------------------------------------------------------------
MaxId      == 2    \* event ids are 1..MaxId
MaxTs      == 1    \* timestamps are 0..MaxTs (milliseconds since the epoch)
MaxPageLen == 1    \* events in one page of a response
MaxPages   == 2    \* pages the store returns for one query
MaxPolls   == 3    \* iterations of the watcher's loop that fetch

\* ---- values -------------------------------------------------------------
None == -1          \* Python's None (last_timestamp before any delivery)

Ids        == 1..MaxId
Timestamps == 0..MaxTs
Entries    == [eventId : Ids, timestamp : Timestamps]

Range(s) == {s[i] : i \in 1..Len(s)}

SeqsUpTo(S, n) == UNION {[1..k -> S] : k \in 0..n}

\* ---- fetch_stream -------------------------------------------------------

\* Python truth value of start_time in "if start_time:": None and 0 are false.
Truthy(v) == v # None /\ v # 0

\* Faulty variant: the query asks for entries after start_time only.
Query_After(start_time) ==
    IF Truthy(start_time)
    THEN [logGroupName |-> "/aws/batch/job", startTime |-> start_time + 1]
    ELSE [logGroupName |-> "/aws/batch/job"]

\* Faulty variant: start_time never reaches the query.
Query_NoStartTime(start_time) == [logGroupName |-> "/aws/batch/job"]

\* The query fetch_stream builds: startTime is present only when start_time
\* is truthy.
Query(start_time) ==
    IF Truthy(start_time)
    THEN [logGroupName |-> "/aws/batch/job", startTime |-> start_time]
    ELSE [logGroupName |-> "/aws/batch/job"]

\* filter_log_events: the events of a response to query are on or after
\* query.startTime when the query has one.
Matches(query, entry) ==
    "startTime" \in DOMAIN query => entry.timestamp >= query.startTime

\* The pages the paginator may hand back for query: a page with an "events"
\* list of matching events, or a page without the "events" key.
Pages(query) ==
    {[events |-> s] : s \in SeqsUpTo({e \in Entries : Matches(query, e)}, MaxPageLen)}
        \cup {[nextToken |-> "t"]}

\* The events the store has put in a page.
EventsOf(page) == IF "events" \in DOMAIN page THEN page.events ELSE << >>

\* Faulty variant: the first event of every page is lost.
PageEvents_SkipsFirst(page) ==
    IF "events" \in DOMAIN page /\ page.events # << >> THEN Tail(page.events) ELSE << >>

\* page.get("events", [])
PageEvents(page) == IF "events" \in DOMAIN page THEN page.events ELSE << >>

\* ---- LogWatcher.run helpers ---------------------------------------------

\* Faulty variant: the loop condition never sees the flag.
StoppedWait_Ignored(flag) == FALSE

\* Faulty variant: the loop condition without its "not".
StoppedWait_Inverted(flag) == ~flag

\* self.stopped.wait(0.2): the value of the flag when the wait returns.
StoppedWait(flag) == flag

\* Faulty variant: no test against consumed.
NotConsumed_Always(entry, seen) == TRUE

\* entry["eventId"] not in consumed
NotConsumed(entry, seen) == entry.eventId \notin seen

\* Faulty variant: the cursor only ever moves up.
NextTimestamp_Max(entry, last) ==
    IF last # None /\ last > entry.timestamp THEN last ELSE entry.timestamp

\* last_timestamp = entry["timestamp"]
NextTimestamp(entry, last) == entry.timestamp

\* Faulty variant: the id is not recorded.
ConsumedAdd_Forgotten(seen, entry) == seen

\* consumed.add(entry["eventId"])
ConsumedAdd(seen, entry) == seen \cup {entry.eventId}

\* Faulty variant: stop() flips the flag.
EventSet_Toggle(flag) == ~flag

\* Faulty variant: stop() leaves the flag as it is.
EventSet_Noop(flag) == flag

\* threading.Event.set()
EventSet(flag) == TRUE

\* Faulty variant: join() waits on a thread that was not started.
JoinRaises_Never(isStarted) == FALSE

\* Thread.join() raises RuntimeError on a thread that was not started.
JoinRaises(isStarted) == ~isStarted

\* Faulty variant: start() runs the thread again.
StartRaises_Never(isStarted) == FALSE

\* Thread.start() raises RuntimeError on a thread that was started before.
StartRaises(isStarted) == isStarted

\* ---- state --------------------------------------------------------------
VARIABLES
    started,         \* Thread._started: start() has been called
    stopped,         \* self.stopped, the Event
    pc,              \* position of the watcher thread
    last_timestamp,  \* run's local last_timestamp
    consumed,        \* run's local set of consumed event ids
    query,           \* the query of the fetch_stream generator in progress
    pagesDone,       \* pages the generator in progress has received
    pending,         \* events of the current page not yet yielded
    error,           \* the exception that ended the thread, or "none"
    callerPc,        \* "idle", or "joining" while a join() is blocked
    lastCall,        \* the last of start(), stop(), join() to be called
    raised,          \* what that call raised, or "none"
    \* history
    delivered,       \* entries passed to the consumer, in order
    returned,        \* ids of the entries fetch_stream has yielded
    firstSeen,       \* those ids in the order of their first yield
    starts,          \* the start_time of each fetch_stream call, in order
    suppressed,      \* ids yielded again after they were consumed
    fetched,         \* events of the pages the generator in progress received
    yielded,         \* entries the generator in progress has yielded
    pollBase,        \* consumed and the number delivered at the last fetch_stream call
    firstStopPc,     \* where the thread was at the first stop() call,
    firstStopPolls,  \* how many fetch_stream calls it had made
    firstStopSent,   \* and how many entries it had passed to the consumer
    joined,          \* a join() has returned after stop() was called
    \* the remote log stream
    faithful,        \* the store is append-only, in timestamp order, and answers
                     \* a query with all its matching entries; otherwise it
                     \* may answer with any matching entries
    store,           \* the entries of a faithful store, in order
    storeAtCall      \* how many it held at the last fetch_stream call

fetchVars   == <<fetched, yielded>>
threadVars  == <<pc, last_timestamp, consumed, query, pagesDone, pending, error>>
historyVars == <<delivered, returned, firstSeen, starts, suppressed, fetchVars, pollBase>>
stopVars    == <<firstStopPc, firstStopPolls, firstStopSent>>
storeVars   == <<faithful, store, storeAtCall>>
callerVars  == <<callerPc, lastCall, raised, joined, stopVars>>
vars == <<started, stopped, threadVars, historyVars, storeVars, callerVars>>

NoQuery == [logGroupName |-> "none"]

\* State after LogWatcher(stream, consumer): the thread is not started and
\* the Event is clear.
Init ==
    /\ started = FALSE
    /\ stopped = FALSE
    /\ pc = "created"
    /\ last_timestamp = None
    /\ consumed = {}
    /\ query = NoQuery
    /\ lastCall = "none"
    /\ suppressed = {}
    /\ fetched = << >>
    /\ yielded = << >>
    /\ pollBase = [seen |-> {}, sent |-> 0]
    /\ firstStopPc = "none"
    /\ firstStopPolls = 0
    /\ firstStopSent = 0
    /\ pagesDone = 0
    /\ pending = << >>
    /\ error = "none"
    /\ callerPc = "idle"
    /\ raised = "none"
    /\ delivered = << >>
    /\ returned = {}
    /\ firstSeen = << >>
    /\ starts = << >>
    /\ joined = FALSE
    /\ faithful \in BOOLEAN
    /\ store = << >>
    /\ storeAtCall = 0

\* Faulty variant: join() returns as soon as the thread was started.
ThreadExited_Started == pc # "created"

\* The thread has exited: run() returned or an exception ended it.  This is
\* what join() waits for.
ThreadExited == pc \in {"done", "dead"}

\* ---- the callers --------------------------------------------------------

\* Thread.start(): starts run() the first time, RuntimeError afterwards.
Start ==
    /\ callerPc = "idle"
    /\ lastCall' = "start"
    /\ IF StartRaises(started)
       THEN /\ raised' = "RuntimeError"
            /\ UNCHANGED <<started, pc>>
       ELSE /\ raised' = "none"
            /\ started' = TRUE
            /\ pc' = "run"
    /\ UNCHANGED <<stopped, last_timestamp, consumed, query, pagesDone, pending,
                   error, historyVars, storeVars, callerPc, joined, stopVars>>

\* Faulty variant: stop() also clears what the thread has consumed.
Stop_ResetsWatcher ==
    /\ stopped' = EventSet(stopped)
    /\ consumed' = {}
    /\ last_timestamp' = None
    /\ lastCall' = "stop"
    /\ raised' = "none"
    /\ IF firstStopPc = "none"
       THEN /\ firstStopPc' = pc
            /\ firstStopPolls' = Len(starts)
            /\ firstStopSent' = Len(delivered)
       ELSE UNCHANGED stopVars
    /\ UNCHANGED <<started, pc, query, pagesDone, pending, error, historyVars,
                   storeVars, callerPc, joined>>

\* LogWatcher.stop(): sets the Event.  Any thread may call it, also while
\* another caller is blocked in join().
Stop ==
    /\ stopped' = EventSet(stopped)
    /\ lastCall' = "stop"
    /\ raised' = "none"
    /\ IF firstStopPc = "none"
       THEN /\ firstStopPc' = pc
            /\ firstStopPolls' = Len(starts)
            /\ firstStopSent' = Len(delivered)
       ELSE UNCHANGED stopVars
    /\ UNCHANGED <<started, threadVars, historyVars, storeVars, callerPc, joined>>

\* Thread.join(): RuntimeError on a thread that was not started, otherwise
\* blocks until the thread has exited.
JoinCall ==
    /\ callerPc = "idle"
    /\ lastCall' = "join"
    /\ IF JoinRaises(started)
       THEN /\ callerPc' = "idle"
            /\ raised' = "RuntimeError"
       ELSE /\ callerPc' = "joining"
            /\ raised' = "none"
    /\ UNCHANGED <<started, stopped, threadVars, historyVars, storeVars, joined, stopVars>>

JoinReturn ==
    /\ callerPc = "joining"
    /\ ThreadExited
    /\ callerPc' = "idle"
    /\ joined' = (joined \/ stopped)
    /\ UNCHANGED <<started, stopped, threadVars, historyVars, storeVars, lastCall,
                   raised, stopVars>>

\* ---- the watcher thread: LogWatcher.run ---------------------------------

\* run() begins: last_timestamp = None, consumed = set().
RunBegins ==
    /\ pc = "run"
    /\ last_timestamp' = None
    /\ consumed' = {}
    /\ pc' = "wait"
    /\ UNCHANGED <<started, stopped, query, pagesDone, pending, error,
                   historyVars, storeVars, callerVars>>

\* while not self.stopped.wait(0.2): the wait returns the flag; the loop ends
\* when it is set and goes on to the fetch when it is not.
WaitReturn ==
    /\ pc = "wait"
    /\ IF StoppedWait(stopped)
       THEN pc' = "done"
       ELSE /\ Len(starts) < MaxPolls
            /\ pc' = "fetch"
    /\ UNCHANGED <<started, stopped, last_timestamp, consumed, query,
                   pagesDone, pending, error, historyVars, storeVars, callerVars>>

\* fetch_stream(self.stream, start_time = last_timestamp): the generator is
\* created with the value last_timestamp has at the call.
FetchCall ==
    /\ pc = "fetch"
    /\ query' = Query(last_timestamp)
    /\ pagesDone' = 0
    /\ pending' = << >>
    /\ starts' = Append(starts, last_timestamp)
    /\ fetched' = << >>
    /\ yielded' = << >>
    /\ pollBase' = [seen |-> consumed, sent |-> Len(delivered)]
    /\ storeAtCall' = Len(store)
    /\ pc' = "page"
    /\ UNCHANGED <<started, stopped, last_timestamp, consumed, error,
                   delivered, returned, firstSeen, suppressed, store, faithful,
                   callerVars>>

\* The entries of a faithful store that a query selects, in the store's order.
Matching(entries, q) == SelectSeq(entries, LAMBDA e : Matches(q, e))

\* The next page of a faithful answer: the matching entries not yet sent, up
\* to a page's length.
NextChunk ==
    LET all  == Matching(store, query)
        rest == SubSeq(all, Len(fetched) + 1, Len(all))
    IN  SubSeq(rest, 1, IF Len(rest) < MaxPageLen THEN Len(rest) ELSE MaxPageLen)

\* The pages the paginator may hand back next: the next chunk of a faithful
\* store, any page of matching events otherwise.
Answers ==
    IF faithful
    THEN IF NextChunk = << >> THEN {} ELSE {[events |-> NextChunk]}
    ELSE Pages(query)

\* A faithful store ends the pagination only once every matching entry it
\* held at the call has been sent.
MayEnd ==
    faithful => Len(fetched) >= Len(Matching(SubSeq(store, 1, storeAtCall), query))

\* A job writes a log entry: a new event id, a timestamp not before the last.
StoreAppend ==
    /\ faithful
    /\ Len(store) < MaxPages * MaxPageLen
    /\ \E e \in Entries :
          /\ \A i \in 1..Len(store) : store[i].eventId # e.eventId
          /\ store # << >> => e.timestamp >= store[Len(store)].timestamp
          /\ store' = Append(store, e)
    /\ UNCHANGED <<started, stopped, threadVars, historyVars, faithful,
                   storeAtCall, callerVars>>

\* Where the loop goes once an entry is dealt with: to the next entry of the
\* page, or to the request for the next page.
AfterEntry(rest) == IF rest = << >> THEN "page" ELSE "entry"

\* for page in log_events.paginate(**query): the store returns one more page.
PageArrives ==
    /\ pc = "page"
    /\ pagesDone < MaxPages
    /\ \E page \in Answers :
          /\ pending' = PageEvents(page)
          /\ pc' = AfterEntry(PageEvents(page))
          /\ fetched' = fetched \o EventsOf(page)
    /\ pagesDone' = pagesDone + 1
    /\ UNCHANGED <<started, stopped, last_timestamp, consumed, query, error,
                   delivered, returned, firstSeen, starts, suppressed, yielded,
                   pollBase, storeVars, callerVars>>

\* The store reports no further pages: the generator ends, and so does the
\* for loop; back to the wait.
PagesExhausted ==
    /\ pc = "page"
    /\ MayEnd
    /\ pc' = "wait"
    /\ fetched' = << >>
    /\ yielded' = << >>
    /\ UNCHANGED <<started, stopped, last_timestamp, consumed, query,
                   pagesDone, pending, error, delivered, returned, firstSeen,
                   starts, suppressed, pollBase, storeVars, callerVars>>

\* The request for a page raises: nothing in run() or fetch_stream() catches
\* it, so it ends the thread.
FetchRaises ==
    /\ pc = "page"
    /\ pc' = "dead"
    /\ error' = "fetch"
    /\ UNCHANGED <<started, stopped, last_timestamp, consumed, query,
                   pagesDone, pending, historyVars, storeVars, callerVars>>

\* The body of the for loop for the next entry the generator yields.
Entry ==
    /\ pc = "entry"
    /\ pending # << >>
    /\ LET entry == Head(pending) IN
         /\ pending' = Tail(pending)
         /\ yielded' = Append(yielded, entry)
         /\ returned' = returned \cup {entry.eventId}
         /\ firstSeen' = IF entry.eventId \in Range(firstSeen)
                         THEN firstSeen
                         ELSE Append(firstSeen, entry.eventId)
         /\ IF NotConsumed(entry, consumed)
            THEN /\ consumed' = ConsumedAdd(consumed, entry)
                 /\ last_timestamp' = NextTimestamp(entry, last_timestamp)
                 /\ delivered' = Append(delivered, entry)
                 /\ pc' = "consumer"
                 /\ UNCHANGED suppressed
            ELSE /\ pc' = AfterEntry(Tail(pending))
                 /\ suppressed' = suppressed \cup {entry.eventId}
                 /\ UNCHANGED <<consumed, last_timestamp, delivered>>
    /\ UNCHANGED <<started, stopped, query, pagesDone, error, starts,
                   fetched, pollBase, storeVars, callerVars>>

\* self.consumer(entry) returns.
ConsumerReturns ==
    /\ pc = "consumer"
    /\ pc' = AfterEntry(pending)
    /\ UNCHANGED <<started, stopped, last_timestamp, consumed, query,
                   pagesDone, pending, error, historyVars, storeVars, callerVars>>

\* self.consumer(entry) raises: nothing catches it, the thread ends.
ConsumerRaises ==
    /\ pc = "consumer"
    /\ pc' = "dead"
    /\ error' = "consumer"
    /\ UNCHANGED <<started, stopped, last_timestamp, consumed, query,
                   pagesDone, pending, historyVars, storeVars, callerVars>>

\* Faulty variant: a set signal ends the thread wherever it is.
Thread_Preemptive ==
    IF stopped /\ pc \in {"wait", "fetch", "page", "entry", "consumer"}
    THEN /\ pc' = "done"
         /\ UNCHANGED <<started, stopped, last_timestamp, consumed, query,
                        pagesDone, pending, error, historyVars, storeVars, callerVars>>
    ELSE \/ RunBegins
         \/ WaitReturn
         \/ FetchCall
         \/ PageArrives
         \/ PagesExhausted
         \/ FetchRaises
         \/ Entry
         \/ ConsumerReturns
         \/ ConsumerRaises

\* LogWatcher.run, one step of the thread.
Thread ==
    \/ RunBegins
    \/ WaitReturn
    \/ FetchCall
    \/ PageArrives
    \/ PagesExhausted
    \/ FetchRaises
    \/ Entry
    \/ ConsumerReturns
    \/ ConsumerRaises

Next ==
    \/ StoreAppend
    \/ Start
    \/ Stop
    \/ JoinCall
    \/ JoinReturn
    \/ Thread

Spec == Init /\ [][Next]_vars

\* The scheduler runs the thread and the blocked join; the store answers
\* every page request and the consumer returns or raises.
FairSpec == Spec /\ WF_vars(Thread) /\ WF_vars(JoinReturn)

TypeOK ==
    /\ started \in BOOLEAN
    /\ stopped \in BOOLEAN
    /\ pc \in {"created", "run", "wait", "fetch", "page", "entry", "consumer", "done", "dead"}
    /\ last_timestamp \in Timestamps \cup {None}
    /\ consumed \subseteq Ids
    /\ pagesDone \in 0..MaxPages
    /\ pending \in SeqsUpTo(Entries, MaxPageLen)
    /\ error \in {"none", "fetch", "consumer"}
    /\ callerPc \in {"idle", "joining"}
    /\ raised \in {"none", "RuntimeError"}

\* ---- properties ---------------------------------------------------------

\* Number of times the consumer was called with an entry of this id.
Deliveries(id) == Cardinality({i \in 1..Len(delivered) : delivered[i].eventId = id})

DeliveredIds == [i \in 1..Len(delivered) |-> delivered[i].eventId]

\* Cursors in order: None precedes every timestamp.
CursorLeq(a, b) == a = None \/ (b # None /\ a <= b)

\* C1: every id fetch_stream has yielded to the loop was passed to the
\* consumer exactly once, and no other id was passed at all, however the
\* yielded sequences overlap.
C1_ExactlyOnce ==
    \A id \in Ids : Deliveries(id) = IF id \in returned THEN 1 ELSE 0

\* An id came back in a later poll after it was consumed, and the loop is
\* back at its wait with every id delivered.
C1_Witness ==
    /\ pc = "wait"
    /\ Len(starts) >= 2
    /\ suppressed # {}
    /\ returned = Ids

\* C2: the ids passed to the consumer, in order, are the ids yielded by the
\* successive fetches in the order of their first appearance.
C2_DeliveryOrder == DeliveredIds = firstSeen

\* Two entries were delivered against timestamp order, with a duplicate
\* suppressed.
C2_Witness ==
    /\ Len(delivered) >= 2
    /\ delivered[1].timestamp > delivered[2].timestamp
    /\ suppressed # {}

\* C3: the start_time of each fetch_stream call is at least the start_time of
\* the call before.
C3_CursorMonotone ==
    \A i \in 1..(Len(starts) - 1) : CursorLeq(starts[i], starts[i + 1])

\* Three polls with a cursor set, after entries were delivered against
\* timestamp order.
C3_Witness ==
    /\ Len(starts) >= 3
    /\ starts[3] # None
    /\ \E i \in 1..(Len(delivered) - 1) :
          delivered[i].timestamp > delivered[i + 1].timestamp

\* The first stop() came before the first wait of the loop had returned:
\* before start(), or during that wait.
StopEarly == firstStopPc \in {"created", "run", "wait"} /\ firstStopPolls = 0

\* The first stop() came before the first poll had completed, and before any
\* entry was passed to the consumer.
StopInFirstPoll ==
    /\ firstStopPc # "none"
    /\ firstStopSent = 0
    /\ \/ firstStopPolls = 0
       \/ firstStopPolls = 1 /\ firstStopPc \in {"page", "entry"}

\* C4 as stated: a stop() before the first poll has completed, the first
\* fetch in flight included, keeps the consumer from being invoked at all.
C4_Original == StopInFirstPoll => delivered = << >>

\* C4: after a stop() that came before the first wait returned, no fetch is
\* made and the consumer is not invoked, and a join() on the started watcher
\* returns.
C4_EarlyStop ==
    /\ [](StopEarly => delivered = << >> /\ starts = << >>)
    /\ ((StopEarly /\ callerPc = "joining") ~> (callerPc = "idle" /\ joined))

\* stop() during the first wait, then join() returned.
C4_Witness ==
    /\ StopEarly
    /\ firstStopPc = "wait"
    /\ joined
    /\ pc = "done"

\* C5: once a join() has returned after stop(), the consumer is not invoked
\* again.
C5_PostStopSilence == [][joined => delivered' = delivered]_vars

\* join() returned after stop() with entries delivered and ids of the store
\* still undelivered.
C5_Witness ==
    /\ joined
    /\ delivered # << >>
    /\ consumed # Ids

\* C6 as stated: join() does not fail, on a watcher that was not started
\* either.
C6_Original == lastCall = "join" => raised = "none"

\* C6: join() on a watcher that was not started does not block: it raises
\* RuntimeError at once; join() on a started watcher and stop() do not fail.
C6_JoinUnstarted ==
    /\ lastCall = "join" => (raised = "RuntimeError" <=> ~started)
    /\ callerPc = "joining" => started
    /\ lastCall = "stop" => raised = "none"

\* join() was called on a watcher in Created and has raised.
C6_Witness ==
    /\ lastCall = "join"
    /\ ~started
    /\ raised = "RuntimeError"
    /\ callerPc = "idle"
    /\ pc = "created"

\* C7 as stated: a fetch that raises does not end the watcher thread.
C7_Original == error = "fetch" => ~ThreadExited

\* C8 as stated: a wait that finds the signal set ends the loop without a
\* fetch, and no fetch_stream call is made once stop() has been called.
C8_Original ==
    [][/\ (pc = "wait" /\ stopped /\ pc' # "wait") => (pc' = "done" /\ starts' = starts)
       /\ firstStopPc # "none" => starts' = starts]_vars

\* C8: a wait that finds the signal set ends the loop without a fetch; the
\* only fetch_stream call made after stop() is the one whose wait had already
\* returned when stop() was called.
C8_StopAtCheckpoint ==
    [][/\ (pc = "wait" /\ stopped /\ pc' # "wait") => (pc' = "done" /\ starts' = starts)
       /\ (firstStopPc # "none" /\ starts' # starts)
             => (firstStopPc = "fetch" /\ Len(starts) = firstStopPolls)]_vars

\* stop() came between the wait and the fetch, the fetch was made, and the
\* next wait ended the loop.
C8_Witness ==
    /\ firstStopPc = "fetch"
    /\ Len(starts) = firstStopPolls + 1
    /\ pc = "done"

\* C9: after stop() on a started watcher the thread exits, and a blocked
\* join() returns.
C9_StopLiveness ==
    /\ (started /\ stopped) ~> ThreadExited
    /\ (callerPc = "joining" /\ stopped) ~> callerPc = "idle"

\* stop() was called in the middle of a poll, the thread has ended by the
\* loop's exit and join() has returned.
C9_Witness ==
    /\ firstStopPc \in {"page", "entry", "consumer"}
    /\ pc = "done"
    /\ joined
    /\ callerPc = "idle"

\* C10: stop() sets the signal and raises nothing, before and after start();
\* a further stop() changes nothing of the watcher, and the signal is never
\* cleared.
C10_StopIdempotent ==
    [][/\ stopped => stopped'
       /\ Stop => /\ stopped'
                  /\ raised' = "none"
                  /\ UNCHANGED <<started, threadVars, historyVars, callerPc, joined>>
                  /\ stopped => UNCHANGED stopVars]_vars

\* stop() was called before start() and again after it.
C10_Witness ==
    /\ firstStopPc = "created"
    /\ started
    /\ lastCall = "stop"
    /\ stopped

\* The lifecycle state of the watcher: Created until start(), Stopped once
\* the thread has exited, in between Running or, with the signal set,
\* StopRequested.
Lifecycle ==
    IF pc = "created" THEN 0
    ELSE IF ThreadExited THEN 3
    ELSE IF stopped THEN 2
    ELSE 1

\* C11: the lifecycle state never moves backwards; only a start() in Created
\* starts the thread; once the thread has exited it stays exited, makes no
\* fetch and does not invoke the consumer, whatever is called.
C11_ForwardOnly ==
    [][/\ Lifecycle' >= Lifecycle
       /\ (started' # started \/ (pc' = "run" /\ pc # "run")) => pc = "created"
       /\ ThreadExited => (pc' = pc /\ starts' = starts /\ delivered' = delivered)]_vars

\* start() was called on a watcher whose thread had exited, and raised.
C11_Witness ==
    /\ ThreadExited
    /\ lastCall = "start"
    /\ raised = "RuntimeError"
    /\ delivered # << >>

\* A fetch_stream generator is in progress.
Fetching == pc \in {"page", "entry", "consumer"}

\* C12: the entries a fetch_stream call with a start_time receives are all on
\* or after it, for 0 as for every other value; a call with None sends a
\* query without startTime.
C12_LowerBound ==
    (Fetching /\ starts # << >>) =>
        LET start_time == starts[Len(starts)] IN
          /\ start_time # None =>
                \A i \in 1..Len(fetched) : fetched[i].timestamp >= start_time
          /\ start_time = None => "startTime" \notin DOMAIN query

\* A call with the largest start_time has received an entry.
C12_Witness ==
    /\ Fetching
    /\ starts # << >>
    /\ starts[Len(starts)] = MaxTs
    /\ fetched # << >>

C14_CooperativeStop ==
    [][/\ pc' = "done" => pc \in {"wait", "done"}
       /\ (stopped' /\ ~stopped) => UNCHANGED threadVars
       /\ (stopped /\ pc = "entry" /\ pending' # pending
             /\ Head(pending).eventId \notin returned)
            => delivered' = Append(delivered, Head(pending))]_vars

\* stop() came in the middle of a fetch or of a consumer call, further
\* entries were delivered, and the loop ended at the next wait.
C14_Witness ==
    /\ firstStopPc \in {"page", "entry", "consumer"}
    /\ Len(delivered) > firstStopSent
    /\ pc = "done"

\* C15: consumed holds the ids of the entries passed to the consumer and
\* only grows; last_timestamp is None before the first delivery and the
\* timestamp of the last entry delivered after it; an entry whose id is in
\* consumed changes neither; each fetch_stream call gets last_timestamp as
\* its start_time.
C15_Coupling ==
    /\ [](/\ consumed = Range(DeliveredIds)
          /\ last_timestamp = IF delivered = << >> THEN None
                              ELSE delivered[Len(delivered)].timestamp)
    /\ [][/\ consumed \subseteq consumed'
          /\ (pc = "entry" /\ pending' # pending /\ Head(pending).eventId \in consumed)
                => UNCHANGED <<consumed, last_timestamp, delivered>>
          /\ starts' # starts => starts' = Append(starts, last_timestamp)]_vars

\* A fetch was called with the cursor of an entry delivered after one with a
\* later timestamp, and a duplicate was skipped.
C15_Witness ==
    /\ Len(delivered) = 2
    /\ delivered[1].timestamp > delivered[2].timestamp
    /\ Len(starts) >= 2
    /\ starts[Len(starts)] = delivered[2].timestamp
    /\ suppressed # {}

\* The fetch in progress has so far received nothing but entries that were
\* in consumed when it was called.
PollIdle ==
    /\ Fetching
    /\ \A i \in 1..Len(fetched) : fetched[i].eventId \in pollBase.seen

\* C16: while a poll has received no entry or only consumed ones, the
\* consumer is not invoked and last_timestamp and consumed are as they were
\* at its fetch_stream call; the poll ends at the wait, which leads to the
\* next fetch unless the signal is set.
C16_EmptyPoll ==
    /\ [](PollIdle => /\ pc # "consumer"
                      /\ Len(delivered) = pollBase.sent
                      /\ consumed = pollBase.seen
                      /\ last_timestamp = starts[Len(starts)])
    /\ [][/\ (PollIdle /\ ~Fetching') => pc' \in {"wait", "dead"}
          /\ (pc = "wait" /\ pc' # "wait" /\ ~stopped) => pc' = "fetch"]_vars

\* Three polls are over, the last of them with a consumed entry only.
C16_Witness ==
    /\ pc = "wait"
    /\ Len(starts) >= 3
    /\ Len(delivered) = pollBase.sent
    /\ delivered # << >>
    /\ suppressed # {}

\* The loop is at its wait and has made all the polls the model follows.
PollsOver == pc = "wait" /\ Len(starts) = MaxPolls

\* C17: with a faithful store, once a poll is over every entry the store
\* held when the poll's fetch_stream call was made has been passed to the
\* consumer, entries sharing the cursor's timestamp included; and an entry
\* of the store is delivered in the end, unless the watcher is stopped, its
\* thread dies of an exception, or its polls run out.
C17_NoSkippedEntries ==
    /\ []((faithful /\ starts # << >> /\ pc \in {"wait", "fetch", "done"}) =>
            \A i \in 1..storeAtCall : store[i] \in Range(delivered))
    /\ \A e \in Entries :
          (faithful /\ started /\ e \in Range(store)) ~>
              (e \in Range(delivered) \/ stopped \/ pc = "dead" \/ PollsOver)

\* Two entries with the same timestamp were delivered in different polls, the
\* first one having come back in the later poll.
C17_Witness ==
    /\ faithful
    /\ pc = "wait"
    /\ Len(delivered) = 2
    /\ delivered[1].timestamp = delivered[2].timestamp
    /\ delivered[1].timestamp >= 1
    /\ pollBase.sent = 1
    /\ suppressed # {}

\* C18 as stated: a consumer that raises does not end the thread without the
\* failure reaching the application; here the application has joined the
\* thread since, and the join has returned.
C18_Original ==
    (error = "consumer" /\ ThreadExited /\ ~stopped
        /\ lastCall = "join" /\ callerPc = "idle" /\ started) =>
            raised # "none"

\* C19: start(), stop() and join() leave last_timestamp and consumed alone,
\* stop() and join() leave the whole thread state alone, and last_timestamp
\* and consumed change only in a step of the watcher's thread, which leaves
\* the callers' state and the signal alone.
C19_SingleWriter ==
    [][/\ (Start \/ Stop \/ JoinCall \/ JoinReturn) =>
              UNCHANGED <<last_timestamp, consumed>>
       /\ (Stop \/ JoinCall \/ JoinReturn) => UNCHANGED <<started, threadVars>>
       /\ (callerVars' # callerVars \/ stopped' # stopped \/ started' # started) =>
              UNCHANGED <<last_timestamp, consumed>>
       /\ (last_timestamp' # last_timestamp \/ consumed' # consumed) =>
              /\ pc \in {"run", "entry"}
              /\ Thread
              /\ UNCHANGED <<started, stopped, callerVars>>]_vars

\* stop() was called in the middle of a poll, with entries consumed and the
\* cursor set, and the thread has kept both.
C19_Witness ==
    /\ firstStopPc \in {"page", "entry", "consumer"}
    /\ firstStopSent >= 1
    /\ stopped
    /\ consumed # {}
    /\ last_timestamp # None
    /\ joined

====
